---- MODULE Spec2Model ----
(***************************************************************************)
(* A model of the vigil editor core: the line buffer (src/src/buffer.rs)   *)
(* and the editor's cursor / viewport / modal input loop                   *)
(* (src/src/editor.rs).                                                    *)
(*                                                                         *)
(* A character is a one-element string; a line (a Rust String) is a        *)
(* sequence of characters; the buffer is a sequence of lines.  Rust        *)
(* indexes from 0 and TLA+ from 1: the operators below take the code's     *)
(* 0-based indexes and add one where they index a sequence.                *)
(* An Option<T> is a sequence of length 0 (None) or 1 (Some).              *)
(***************************************************************************)
EXTENDS Integers, Sequences, FiniteSets, TLC

VARIABLES
    lines,            \* Buffer.lines
    file,             \* Buffer.file : Option<String>
    disk,             \* content of the file at Buffer.file (a character sequence)
    size,             \* Editor.size = <<width, height>>
    mode,             \* Editor.mode
    vtop,             \* Editor.vtop
    vleft,            \* Editor.vleft
    cx,               \* Editor.cx
    cy,               \* Editor.cy
    waiting_command,  \* Editor.waiting_command : Option<char>
    pc,               \* position of the process
    taken,            \* the pending command handle_normal_event took for the last event
    action,           \* the Option<Action> handle_event resolved the last event to
    raw,              \* the terminal is in raw mode
    alt,              \* the terminal shows the alternate screen
    restored,         \* how many times the terminal restoration has run
    fault,            \* why the process panicked, "none" if it has not
    overflow_checks,  \* build profile: TRUE panics on integer overflow, FALSE wraps
    op                \* the Buffer operation last applied (buffer specification)

vars == <<lines, file, disk, size, mode, vtop, vleft, cx, cy, waiting_command,
          pc, taken, action, raw, alt, restored, fault, overflow_checks, op>>

editorVars == <<size, mode, vtop, vleft, cx, cy, waiting_command>>
termVars == <<raw, alt, restored>>

-----------------------------------------------------------------------------
(* Bounds of the model *)

\* most typed characters in the buffer
MaxTyped == 1
\* most padding spaces in the buffer
MaxPadding == 1
\* most lines an insertion may leave in the buffer
MaxLines == 3
\* largest cursor / scroll coordinate from which the loop is still explored
MaxCoord == 5
\* longest line and most lines of a buffer handed to the Buffer operations
MaxBufLineLen == 2
MaxBufLines == 2

\* u16
U16 == 65536

Wrap(n) == n % U16

-----------------------------------------------------------------------------
(* Characters and strings *)

NL == "\n"
CR == "\r"
SPACE == " "

\* characters whose UTF-8 encoding is two bytes long; "E" stands for one
\* (an e with an acute accent, say)
WideChars == {"E"}

\* char::len_utf8
ByteLen(c) == IF c \in WideChars THEN 2 ELSE 1

\* String::len : the length in bytes
RECURSIVE StrLen(_)
StrLen(s) == IF s = <<>> THEN 0 ELSE ByteLen(Head(s)) + StrLen(Tail(s))

\* " ".repeat(n)
Spaces(n) == [i \in 1..n |-> SPACE]

\* str::is_char_boundary, for 0 <= x <= StrLen(s)
IsCharBoundary(s, x) == \E i \in 0..Len(s) : StrLen(SubSeq(s, 1, i)) = x

\* the 0-based character index of the character that starts at byte x
CharIndexAt(s, x) == CHOOSE i \in 0..Len(s) : StrLen(SubSeq(s, 1, i)) = x

-----------------------------------------------------------------------------
(* Buffer *)

None == <<>>
Some(v) == <<v>>

\* Buffer::get
Get(ls, line) == IF Len(ls) > line THEN Some(ls[line + 1]) ELSE None

\* Buffer::len
BufLen(ls) == Len(ls)

\* a seeded fault for C3: the existing line is not padded up to the column
InsertInLineNoPad(l, x, c) ==
    IF Len(l) <= x THEN l \o <<c>>
    ELSE SubSeq(l, 1, x) \o <<c>> \o SubSeq(l, x + 1, Len(l))

\* the new line Buffer::insert builds from an existing line
InsertInLine(l, x, c) ==
    IF Len(l) < x THEN l \o Spaces(x - Len(l)) \o <<c>>
    ELSE IF Len(l) = x THEN l \o <<c>>
    ELSE SubSeq(l, 1, x) \o <<c>> \o SubSeq(l, x + 1, Len(l))

\* a seeded fault for C17: the line appended for an absent line is not
\* padded up to the column
InsertUnpaddedAppend(ls, x, y, c) ==
    IF y < Len(ls)
    THEN [ls EXCEPT ![y + 1] = InsertInLine(ls[y + 1], x, c)]
    ELSE Append(ls, <<c>>)

\* Buffer::insert
Insert(ls, x, y, c) ==
    IF y < Len(ls)
    THEN [ls EXCEPT ![y + 1] = InsertInLine(ls[y + 1], x, c)]
    ELSE Append(ls, (IF x > 0 THEN Spaces(x) ELSE <<>>) \o <<c>>)

\* Buffer::remove reaches String::remove
RemoveActs(ls, x, y) ==
    /\ y < Len(ls)
    /\ ls[y + 1] # <<>>
    /\ x < StrLen(ls[y + 1])

\* String::remove panics when the byte index is not a character boundary
RemovePanics(ls, x, y) ==
    /\ RemoveActs(ls, x, y)
    /\ ~IsCharBoundary(ls[y + 1], x)

\* String::remove
StringRemove(l, x) ==
    LET i == CharIndexAt(l, x)
    IN  SubSeq(l, 1, i) \o SubSeq(l, i + 2, Len(l))

\* Buffer::remove, where it does not panic
Remove(ls, x, y) ==
    IF RemoveActs(ls, x, y) /\ ~RemovePanics(ls, x, y)
    THEN [ls EXCEPT ![y + 1] = StringRemove(ls[y + 1], x)]
    ELSE ls

\* Buffer::remove_line (called at editor.rs:310; its body is not among the
\* sources, so it follows the specification: delete the line at that index,
\* shifting the later lines up by one; no-op if out of range)
RemoveLine(ls, line) ==
    IF line < Len(ls)
    THEN SubSeq(ls, 1, line) \o SubSeq(ls, line + 2, Len(ls))
    ELSE ls

\* [String]::join("\n")
RECURSIVE Join(_)
Join(ls) ==
    IF ls = <<>> THEN <<>>
    ELSE IF Len(ls) = 1 THEN ls[1]
    ELSE ls[1] \o <<NL>> \o Join(Tail(ls))

\* str::split_inclusive('\n'): the pieces, each ending with its newline
\* except possibly the last; no empty last piece
RECURSIVE SplitInclusive(_, _)
SplitInclusive(s, cur) ==
    IF s = <<>> THEN (IF cur = <<>> THEN <<>> ELSE <<cur>>)
    ELSE IF Head(s) = NL THEN <<Append(cur, NL)>> \o SplitInclusive(Tail(s), <<>>)
    ELSE SplitInclusive(Tail(s), Append(cur, Head(s)))

\* what str::lines maps each piece to: strip one "\n", then one "\r"
StripLineEnding(p) ==
    IF p # <<>> /\ p[Len(p)] = NL
    THEN LET q == SubSeq(p, 1, Len(p) - 1)
         IN  IF q # <<>> /\ q[Len(q)] = CR THEN SubSeq(q, 1, Len(q) - 1) ELSE q
    ELSE p

\* str::lines
StrLines(s) ==
    LET ps == SplitInclusive(s, <<>>)
    IN  [i \in 1..Len(ps) |-> StripLineEnding(ps[i])]

\* Buffer::from_file with Some(file): the lines of the file's content
FromFile(content) == StrLines(content)

\* Buffer::save with Some(file): the content written
SaveContent(ls) == Join(ls)

-----------------------------------------------------------------------------
(* Events and Actions *)

\* crossterm::event::Event, as far as the handlers look at it.  ctrl is TRUE
\* when the key's modifiers are exactly KeyModifiers::CONTROL.
Key(code, ch, ctrl) ==
    [kind |-> "Key", code |-> code, ch |-> ch, ctrl |-> ctrl, size |-> <<0, 0>>]
Resize(w, h) ==
    [kind |-> "Resize", code |-> "", ch |-> "", ctrl |-> FALSE, size |-> <<w, h>>]
\* any other event (mouse, focus, paste)
OtherEvent ==
    [kind |-> "Other", code |-> "", ch |-> "", ctrl |-> FALSE, size |-> <<0, 0>>]
Char(c) == Key("Char", c, FALSE)
Ctrl(c) == Key("Char", c, TRUE)

\* enum Action
Act(name, arg) == [name |-> name, arg |-> arg]

\* the screen sizes a resize event reports
Sizes == {<<20, 3>>, <<20, 2>>, <<2, 1>>}

\* the screen sizes terminal::size reports when the editor starts
StartSizes == {<<20, 3>>}

\* the characters typed in Insert mode
TypedChars == {"x"}

\* the characters with a Normal-mode binding (a typed character has none)
NormalChars == {"q", "k", "j", "h", "l", "i", "0", "$", "b", "f", "s", "d"}

\* the events the input source delivers
Events ==
    {Char(c) : c \in NormalChars \cup TypedChars}
    \cup {Ctrl(c) : c \in {"b", "f", "s"}}
    \cup {Key(code, "", FALSE) :
            code \in {"Up", "Down", "Left", "Right", "Home", "End",
                      "Esc", "Backspace", "Enter", "Tab"}}
    \cup {Resize(s[1], s[2]) : s \in Sizes}
    \cup {OtherEvent}

\* Editor::handle_waiting_command
HandleWaitingCommand(e, cmd) ==
    IF cmd = "d" /\ e.kind = "Key"
    THEN IF e.code = "Char" /\ e.ch = "d" THEN Some(Act("DeleteCurrentLine", ""))
         ELSE IF e.code = "Esc" THEN Some(Act("EnterMode", "Normal"))
         ELSE None
    ELSE None

\* the key map of Editor::handle_normal_event
NormalKeyMap(e) ==
    IF e.kind # "Key" THEN None
    ELSE IF e.code = "Char" /\ e.ch = "q" THEN Some(Act("Quit", ""))
    ELSE IF e.code = "Up" \/ (e.code = "Char" /\ e.ch = "k") THEN Some(Act("MoveUp", ""))
    ELSE IF e.code = "Down" \/ (e.code = "Char" /\ e.ch = "j") THEN Some(Act("MoveDown", ""))
    ELSE IF e.code = "Left" \/ (e.code = "Char" /\ e.ch = "h") THEN Some(Act("MoveLeft", ""))
    ELSE IF e.code = "Right" \/ (e.code = "Char" /\ e.ch = "l") THEN Some(Act("MoveRight", ""))
    ELSE IF e.code = "Char" /\ e.ch = "i" THEN Some(Act("EnterMode", "Insert"))
    ELSE IF e.code = "Home" \/ (e.code = "Char" /\ e.ch = "0")
        THEN Some(Act("MoveToLineStart", ""))
    ELSE IF e.code = "End" \/ (e.code = "Char" /\ e.ch = "$")
        THEN Some(Act("MoveToLineEnd", ""))
    ELSE IF e.code = "Char" /\ e.ch = "b"
        THEN (IF e.ctrl THEN Some(Act("PageUp", "")) ELSE None)
    ELSE IF e.code = "Char" /\ e.ch = "f"
        THEN (IF e.ctrl THEN Some(Act("PageDown", "")) ELSE None)
    ELSE IF e.code = "Char" /\ e.ch = "s"
        THEN (IF e.ctrl THEN Some(Act("Save", "")) ELSE None)
    ELSE IF e.code = "Char" /\ e.ch = "d" THEN Some(Act("SetWaitingCad", "d"))
    ELSE None

\* a seeded fault for C8: a key the pending-command resolver does not know
\* falls through to the Normal key map
HandleNormalEventFallThrough(e, wc) ==
    IF wc # None /\ HandleWaitingCommand(e, wc[1]) # None
    THEN HandleWaitingCommand(e, wc[1])
    ELSE NormalKeyMap(e)

\* Editor::handle_normal_event: the Action
HandleNormalEvent(e, wc) ==
    IF wc # None THEN HandleWaitingCommand(e, wc[1]) ELSE NormalKeyMap(e)

\* a seeded fault for C20: Insert mode starts the 'd' command on Enter
HandleInsertEventPending(e) ==
    IF e.kind # "Key" THEN None
    ELSE IF e.code = "Esc" THEN Some(Act("EnterMode", "Normal"))
    ELSE IF e.code = "Char" THEN Some(Act("InsertCharAtCursorPos", e.ch))
    ELSE IF e.code = "Backspace" THEN Some(Act("DeleteCharAtCursorPos", ""))
    ELSE IF e.code = "Enter" THEN Some(Act("SetWaitingCad", "d"))
    ELSE None

\* a seeded fault for C23: Insert mode has no binding for Esc
HandleInsertEventNoEsc(e) ==
    IF e.kind # "Key" THEN None
    ELSE IF e.code = "Char" THEN Some(Act("InsertCharAtCursorPos", e.ch))
    ELSE IF e.code = "Backspace" THEN Some(Act("DeleteCharAtCursorPos", ""))
    ELSE IF e.code = "Enter" THEN Some(Act("NewLine", ""))
    ELSE None

\* Editor::handle_insert_event
HandleInsertEvent(e) ==
    IF e.kind # "Key" THEN None
    ELSE IF e.code = "Esc" THEN Some(Act("EnterMode", "Normal"))
    ELSE IF e.code = "Char" THEN Some(Act("InsertCharAtCursorPos", e.ch))
    ELSE IF e.code = "Backspace" THEN Some(Act("DeleteCharAtCursorPos", ""))
    ELSE IF e.code = "Enter" THEN Some(Act("NewLine", ""))
    ELSE None

\* Editor::handle_event: the Action it returns
HandleEvent(e, m, wc) ==
    IF e.kind = "Resize" THEN None
    ELSE IF m = "Normal" THEN HandleNormalEvent(e, wc)
    ELSE HandleInsertEvent(e)

\* Editor::handle_event: self.size when it returns
SizeAfterEvent(e, sz) == IF e.kind = "Resize" THEN e.size ELSE sz

\* a seeded fault for C15: the pending command is taken before the resize is
\* looked at
WaitingAfterEventResizeClears(e, m, wc) == IF m = "Normal" THEN None ELSE wc

\* a seeded fault for C6: the pending command is cleared only by a key the
\* resolver knows
WaitingAfterEventKeep(e, m, wc) ==
    IF e.kind = "Resize" THEN wc
    ELSE IF m = "Normal" /\ wc # None /\ HandleWaitingCommand(e, wc[1]) # None THEN None
    ELSE wc

\* Editor::handle_event: self.waiting_command when it returns
\* (handle_normal_event takes the pending command; a resize returns before it)
WaitingAfterEvent(e, m, wc) ==
    IF e.kind = "Resize" THEN wc
    ELSE IF m = "Normal" THEN None
    ELSE wc

-----------------------------------------------------------------------------
(* Editor: geometry *)

\* u16::saturating_sub
SatSub(a, b) == IF a > b THEN a - b ELSE 0

\* the number of decimal digits of n, as format!("{}", n) prints it
Digits(n) == IF n < 10 THEN 1 ELSE IF n < 100 THEN 2 ELSE IF n < 1000 THEN 3
             ELSE IF n < 10000 THEN 4 ELSE 5

\* Editor::vwidth
Vwidth == size[1]

\* Editor::vheight, and whether its subtraction overflows
Vheight == Wrap(size[2] - 2)
VheightOvf == size[2] < 2

\* Editor::buffer_line for a cursor row y, and whether its addition overflows
BufferLine(y) == Wrap(vtop + y)
BufferLineOvf(y) == vtop + y >= U16

\* Editor::viewport_line
ViewportLine(ls, n) == Get(ls, Wrap(vtop + n))

\* Editor::line_length for a cursor row y
LineLength(ls, y) ==
    LET l == ViewportLine(ls, y)
    IN  IF l # None THEN Wrap(StrLen(l[1])) ELSE 0

\* a seeded fault for C2: check_bounds without the branch that resets cx on
\* an empty or absent line
CheckBoundsKeepCx ==
    LET line_length == LineLength(lines, cy)
        cx1 == IF cx >= line_length /\ line_length > 0 THEN line_length ELSE cx
        cx2 == IF cx1 >= Vwidth THEN Vwidth ELSE cx1
        line_on_buffer == Wrap(cy + vtop)
        past == line_on_buffer >= BufLen(lines)
    IN  [cx  |-> cx2,
         cy  |-> IF past THEN Wrap(BufLen(lines) - vtop) ELSE cy,
         ovf |-> BufferLineOvf(cy) \/ (past /\ BufLen(lines) < vtop)]

\* Editor::check_bounds: the cursor it leaves, and whether a step overflows
CheckBounds ==
    LET line_length == LineLength(lines, cy)
        cx1 == IF cx >= line_length
               THEN (IF line_length > 0 THEN line_length ELSE 0)
               ELSE cx
        cx2 == IF cx1 >= Vwidth THEN Vwidth ELSE cx1
        line_on_buffer == Wrap(cy + vtop)
        past == line_on_buffer >= BufLen(lines)
    IN  [cx  |-> cx2,
         cy  |-> IF past THEN Wrap(BufLen(lines) - vtop) ELSE cy,
         ovf |-> BufferLineOvf(cy) \/ (past /\ BufLen(lines) < vtop)]

\* Editor::draw (draw_viewport, draw_statusline) with the cursor at (x, y):
\* whether one of its u16 computations overflows.  The mode name is 8 bytes
\* long (" NORMAL ", " INSERT "), the position is " {x+1}:{y+1} ".
DrawOvf(x, y) ==
    \/ VheightOvf
    \/ (Vheight > 0 /\ vtop + (Vheight - 1) >= U16)
    \/ x + 1 >= U16
    \/ y + 1 >= U16
    \/ size[1] < 8 + (3 + Digits(x + 1) + Digits(y + 1)) + 2

-----------------------------------------------------------------------------
(* Editor::run: what each Action does to the editor.  An effect is a record *)
(* of the fields after the Action; ovf says that a u16 computation of it   *)
(* overflowed, bad names a panic that no build profile avoids.             *)

Same == [lines |-> lines, cx |-> cx, cy |-> cy, vtop |-> vtop, mode |-> mode,
         ovf |-> FALSE, bad |-> "none"]

MoveUpEffect ==
    IF cy = 0
    THEN (IF vtop > 0 THEN [Same EXCEPT !.vtop = vtop - 1] ELSE Same)
    ELSE [Same EXCEPT !.cy = SatSub(cy, 1)]

MoveDownEffect ==
    LET cy1 == Wrap(cy + 1)
        scroll == cy1 > Vheight
    IN  [Same EXCEPT !.cy = IF scroll THEN cy1 - 1 ELSE cy1,
                     !.vtop = IF scroll THEN Wrap(vtop + 1) ELSE vtop,
                     !.ovf = \/ cy + 1 >= U16
                             \/ VheightOvf
                             \/ (scroll /\ vtop + 1 >= U16)]

MoveLeftEffect ==
    LET cx1 == SatSub(cx, 1)
    IN  [Same EXCEPT !.cx = IF cx1 < vleft THEN vleft ELSE cx1]

MoveRightEffect ==
    [Same EXCEPT !.cx = Wrap(cx + 1), !.ovf = cx + 1 >= U16]

MoveToLineEndEffect ==
    [Same EXCEPT !.cx = SatSub(LineLength(lines, cy), 1), !.ovf = BufferLineOvf(cy)]

MoveToLineStartEffect == [Same EXCEPT !.cx = 0]

PageUpEffect ==
    IF vtop > 0
    THEN [Same EXCEPT !.vtop = SatSub(vtop, Vheight), !.ovf = VheightOvf]
    ELSE Same

PageDownEffect ==
    LET sum == Wrap(vtop + Vheight)
        ovf == VheightOvf \/ vtop + Vheight >= U16
    IN  IF BufLen(lines) > sum
        THEN [Same EXCEPT !.vtop = sum, !.ovf = ovf]
        ELSE [Same EXCEPT !.ovf = ovf]

EnterModeEffect(new_mode) == [Same EXCEPT !.mode = new_mode]

InsertCharAtCursorPosEffect(c) ==
    [Same EXCEPT !.lines = Insert(lines, cx, BufferLine(cy), c),
                 !.cx = Wrap(cx + 1),
                 !.ovf = BufferLineOvf(cy) \/ cx + 1 >= U16]

DeleteCharAtCursorPosEffect ==
    IF cx > 0
    THEN [Same EXCEPT
            !.cx = cx - 1,
            !.lines = Remove(lines, cx - 1, BufferLine(cy)),
            !.ovf = BufferLineOvf(cy),
            !.bad = IF RemovePanics(lines, cx - 1, BufferLine(cy))
                    THEN "char_boundary" ELSE "none"]
    ELSE IF BufferLine(cy) > 0
    THEN LET cy1 == SatSub(cy, 1)
             cx1 == LineLength(lines, cy1)
         IN  IF cx1 > 0
             THEN [Same EXCEPT
                     !.cy = cy1,
                     !.cx = cx1 - 1,
                     !.lines = Remove(lines, cx1 - 1, BufferLine(cy1)),
                     !.ovf = BufferLineOvf(cy),
                     !.bad = IF RemovePanics(lines, cx1 - 1, BufferLine(cy1))
                             THEN "char_boundary" ELSE "none"]
             ELSE [Same EXCEPT !.cy = cy1, !.cx = cx1, !.ovf = BufferLineOvf(cy)]
    ELSE [Same EXCEPT !.ovf = BufferLineOvf(cy)]

\* a seeded fault for C21: Enter splits the line under the cursor
NewLineEffectSplit ==
    LET k == BufferLine(cy)
        l == IF k < Len(lines) THEN lines[k + 1] ELSE <<>>
        x == IF cx < Len(l) THEN cx ELSE Len(l)
    IN  [Same EXCEPT
           !.lines = IF k < Len(lines)
                     THEN SubSeq(lines, 1, k)
                          \o <<SubSeq(l, 1, x), SubSeq(l, x + 1, Len(l))>>
                          \o SubSeq(lines, k + 2, Len(lines))
                     ELSE lines,
           !.cy = Wrap(cy + 1), !.cx = 0, !.ovf = cy + 1 >= U16]

NewLineEffect ==
    [Same EXCEPT !.cy = Wrap(cy + 1), !.cx = 0, !.ovf = cy + 1 >= U16]

\* Action::SetWaitingCad: the waiting_command it leaves
SetWaitingCadEffect(cmd) == Some(cmd)

\* a seeded fault for C7: the line removed is the cursor row, not the
\* buffer line under it
DeleteCurrentLineEffectRow ==
    [Same EXCEPT !.lines = RemoveLine(lines, cy),
                 !.cy = IF cy > 0 THEN cy - 1 ELSE cy,
                 !.vtop = IF vtop > 0 THEN vtop - 1 ELSE vtop,
                 !.ovf = BufferLineOvf(cy)]

DeleteCurrentLineEffect ==
    [Same EXCEPT !.lines = RemoveLine(lines, BufferLine(cy)),
                 !.cy = IF cy > 0 THEN cy - 1 ELSE cy,
                 !.vtop = IF vtop > 0 THEN vtop - 1 ELSE vtop,
                 !.ovf = BufferLineOvf(cy)]

-----------------------------------------------------------------------------
(* The process: main creates the Editor, runs its loop and drops it *)

\* impl Drop for Editor: the terminal restoration
Drop ==
    /\ raw' = FALSE
    /\ alt' = FALSE
    /\ restored' = restored + 1

\* the Editor and the Buffer it owns are gone: their fields hold nothing
Freed ==
    /\ lines' = <<>>
    /\ size' = <<0, 0>>
    /\ mode' = "Normal"
    /\ vtop' = 0
    /\ vleft' = 0
    /\ cx' = 0
    /\ cy' = 0
    /\ waiting_command' = None

\* the files the editor is started on
InitFiles == { <<"a", NL, "c", NL, "E">> }

\* the characters of the startup files
FileChars == {"a", "E", "c"}

InitEditor ==
    /\ size = <<0, 0>>
    /\ mode = "Normal"
    /\ vtop = 0
    /\ vleft = 0
    /\ cx = 0
    /\ cy = 0
    /\ waiting_command = None
    /\ taken = None
    /\ action = None
    /\ raw = FALSE
    /\ alt = FALSE
    /\ restored = 0
    /\ fault = "none"

NoOp == [name |-> "none", x |-> 0, y |-> 0, c |-> "", pre |-> <<>>]

\* the process after Buffer::from_file, before Editor::new
Init ==
    /\ file \in {None, Some("f")}
    /\ disk \in (IF file = None THEN {<<>>} ELSE InitFiles)
    /\ lines = (IF file = None THEN <<>> ELSE FromFile(disk))
    /\ overflow_checks \in BOOLEAN
    /\ pc = "start"
    /\ op = NoOp
    /\ InitEditor

\* Editor::new succeeds
NewEditor ==
    /\ pc = "start"
    /\ raw' = TRUE
    /\ alt' = TRUE
    /\ size' \in StartSizes
    /\ mode' = "Normal"
    /\ vtop' = 0
    /\ vleft' = 0
    /\ cx' = 0
    /\ cy' = 0
    /\ waiting_command' = None
    /\ pc' = "clamp"
    /\ UNCHANGED <<lines, file, disk, taken, action, restored, fault, overflow_checks, op>>

\* Editor::new fails: enable_raw_mode().unwrap() panics, or one of the calls
\* after it returns its error with `?`; no Editor exists to be dropped
NewEditorFails ==
    /\ pc = "start"
    /\ \E at \in {"enable_raw_mode", "EnterAlternateScreen", "Clear", "size"} :
         /\ raw' = (at # "enable_raw_mode")
         /\ alt' = (at \in {"Clear", "size"})
         /\ pc' = IF at = "enable_raw_mode" THEN "panicked" ELSE "exited"
         /\ fault' = IF at = "enable_raw_mode" THEN "enable_raw_mode" ELSE fault
    /\ Freed
    /\ UNCHANGED <<file, disk, taken, action, restored, overflow_checks, op>>

\* a panic while the Editor exists: unwinding drops it
Panic(reason) ==
    /\ pc' = "panicked"
    /\ fault' = reason
    /\ Drop
    /\ Freed

\* the loop without its check_bounds call: draw, then read
ClampSkip ==
    /\ pc = "clamp"
    /\ IF overflow_checks /\ DrawOvf(cx, cy)
       THEN /\ Panic("overflow")
            /\ UNCHANGED <<taken, action>>
       ELSE /\ pc' = "read"
            /\ taken' = None
            /\ action' = None
            /\ UNCHANGED <<lines, size, mode, vtop, vleft, cx, cy,
                           waiting_command, termVars, fault>>
    /\ UNCHANGED <<file, disk, overflow_checks, op>>

\* check_bounds and draw at the top of the loop
Clamp ==
    /\ pc = "clamp"
    /\ LET r == CheckBounds
       IN  IF overflow_checks /\ (r.ovf \/ DrawOvf(r.cx, r.cy))
           THEN /\ Panic("overflow")
                /\ UNCHANGED <<taken, action>>
           ELSE /\ cx' = r.cx
                /\ cy' = r.cy
                /\ pc' = "read"
                /\ taken' = None
                /\ action' = None
                /\ UNCHANGED <<lines, size, mode, vtop, vleft, waiting_command,
                               termVars, fault>>
    /\ UNCHANGED <<file, disk, overflow_checks, op>>

\* draw()? or read()? returns an error: run returns it, main drops the Editor
IoError ==
    /\ pc \in {"clamp", "read"}
    /\ pc' = "exited"
    /\ Drop
    /\ Freed
    /\ UNCHANGED <<file, disk, taken, action, fault, overflow_checks, op>>

\* the cursor and scroll offsets from which the loop is explored
InRange == cx <= MaxCoord /\ cy <= MaxCoord /\ vtop <= MaxCoord

\* the number of spaces of a line, of a buffer (no startup file holds one:
\* they are the padding of Buffer::insert)
RECURSIVE PaddingIn(_)
PaddingIn(l) ==
    IF l = <<>> THEN 0
    ELSE (IF Head(l) = SPACE THEN 1 ELSE 0) + PaddingIn(Tail(l))
RECURSIVE PaddingCount(_)
PaddingCount(ls) ==
    IF ls = <<>> THEN 0 ELSE PaddingIn(Head(ls)) + PaddingCount(Tail(ls))

\* The loop never reads the file again, so an event after a save acts as one
\* before it: the loop is explored until a save has changed the file, and
\* until the buffer holds the most padding.
Explored ==
    /\ file = None \/ disk \in InitFiles
    /\ PaddingCount(lines) < MaxPadding

\* the loop is at read(), in a state from which it is explored
Ready == pc = "read" /\ InRange /\ Explored

\* read() returns the event e
Reads(e) ==
    /\ pc = "read"
    /\ (mode = "Insert" /\ e.code = "Char") => e.ch \in TypedChars

\* handle_event(e)
Resolved(e) == HandleEvent(e, mode, waiting_command)

\* the waiting_command handle_event(e) leaves
Waiting(e) == WaitingAfterEvent(e, mode, waiting_command)

\* the pending command handle_normal_event takes for e
Taken(e) ==
    IF e.kind # "Resize" /\ mode = "Normal" THEN waiting_command ELSE None

\* the loop body after handle_event(e): the Action's effect r is applied, or
\* the process panics; w is the waiting_command left
Commit(e, r, w) ==
    /\ taken' = Taken(e)
    /\ action' = Resolved(e)
    /\ IF (r.ovf /\ overflow_checks) \/ r.bad # "none"
       THEN Panic(IF r.ovf /\ overflow_checks THEN "overflow" ELSE r.bad)
       ELSE /\ pc' = "clamp"
            /\ size' = SizeAfterEvent(e, size)
            /\ vleft' = vleft
            /\ lines' = r.lines
            /\ cx' = r.cx
            /\ cy' = r.cy
            /\ vtop' = r.vtop
            /\ mode' = r.mode
            /\ waiting_command' = w
            /\ UNCHANGED <<termVars, fault>>
    /\ UNCHANGED <<file, overflow_checks, op>>

\* the number of characters of a line, of a buffer, that were typed (the
\* spaces Buffer::insert pads with are not counted)
RECURSIVE TypedIn(_)
TypedIn(l) ==
    IF l = <<>> THEN 0
    ELSE (IF Head(l) \in TypedChars THEN 1 ELSE 0) + TypedIn(Tail(l))
RECURSIVE TypedCount(_)
TypedCount(ls) == IF ls = <<>> THEN 0 ELSE TypedIn(Head(ls)) + TypedCount(Tail(ls))

\* an insertion keeps the buffer within the model's bounds
WithinBounds(ls) ==
    /\ TypedCount(ls) <= MaxTyped
    /\ PaddingCount(ls) <= MaxPadding
    /\ Len(ls) <= MaxLines

HandleResizeOn(e) ==
    /\ Reads(e)
    /\ e.kind = "Resize"
    /\ Commit(e, Same, Waiting(e))
    /\ UNCHANGED disk

NoActionOn(e) ==
    /\ Reads(e)
    /\ e.kind # "Resize"
    /\ Resolved(e) = None
    /\ Commit(e, Same, Waiting(e))
    /\ UNCHANGED disk

\* Action::Quit breaks the loop: run returns, main drops the Editor
QuitOn(e) ==
    /\ Reads(e)
    /\ Resolved(e) = Some(Act("Quit", ""))
    /\ taken' = Taken(e)
    /\ action' = Resolved(e)
    /\ pc' = "exited"
    /\ Drop
    /\ Freed
    /\ UNCHANGED <<file, disk, fault, overflow_checks, op>>

\* Action::Save: Buffer::save writes the file, or the unwrap of the failed
\* write panics
SaveOn(e) ==
    /\ Reads(e)
    /\ Resolved(e) = Some(Act("Save", ""))
    /\ \/ /\ file = None
          /\ Commit(e, Same, Waiting(e))
          /\ UNCHANGED disk
       \/ /\ file # None
          /\ Commit(e, Same, Waiting(e))
          /\ disk' = SaveContent(lines)
       \/ /\ file # None
          /\ Commit(e, [Same EXCEPT !.bad = "save"], Waiting(e))
          /\ UNCHANGED disk

MoveUpOn(e) ==
    /\ Reads(e)
    /\ Resolved(e) = Some(Act("MoveUp", ""))
    /\ Commit(e, MoveUpEffect, Waiting(e))
    /\ UNCHANGED disk

MoveDownOn(e) ==
    /\ Reads(e)
    /\ Resolved(e) = Some(Act("MoveDown", ""))
    /\ Commit(e, MoveDownEffect, Waiting(e))
    /\ UNCHANGED disk

MoveLeftOn(e) ==
    /\ Reads(e)
    /\ Resolved(e) = Some(Act("MoveLeft", ""))
    /\ Commit(e, MoveLeftEffect, Waiting(e))
    /\ UNCHANGED disk

MoveRightOn(e) ==
    /\ Reads(e)
    /\ Resolved(e) = Some(Act("MoveRight", ""))
    /\ Commit(e, MoveRightEffect, Waiting(e))
    /\ UNCHANGED disk

MoveToLineEndOn(e) ==
    /\ Reads(e)
    /\ Resolved(e) = Some(Act("MoveToLineEnd", ""))
    /\ Commit(e, MoveToLineEndEffect, Waiting(e))
    /\ UNCHANGED disk

MoveToLineStartOn(e) ==
    /\ Reads(e)
    /\ Resolved(e) = Some(Act("MoveToLineStart", ""))
    /\ Commit(e, MoveToLineStartEffect, Waiting(e))
    /\ UNCHANGED disk

PageUpOn(e) ==
    /\ Reads(e)
    /\ Resolved(e) = Some(Act("PageUp", ""))
    /\ Commit(e, PageUpEffect, Waiting(e))
    /\ UNCHANGED disk

PageDownOn(e) ==
    /\ Reads(e)
    /\ Resolved(e) = Some(Act("PageDown", ""))
    /\ Commit(e, PageDownEffect, Waiting(e))
    /\ UNCHANGED disk

NewLineOn(e) ==
    /\ Reads(e)
    /\ Resolved(e) = Some(Act("NewLine", ""))
    /\ Commit(e, NewLineEffect, Waiting(e))
    /\ UNCHANGED disk

EnterModeOn(e) ==
    \E m \in {"Normal", "Insert"} :
        /\ Reads(e)
        /\ Resolved(e) = Some(Act("EnterMode", m))
        /\ Commit(e, EnterModeEffect(m), Waiting(e))
        /\ UNCHANGED disk

InsertCharAtCursorPosOn(e) ==
    /\ Reads(e)
    /\ Resolved(e) = Some(Act("InsertCharAtCursorPos", e.ch))
    /\ WithinBounds(InsertCharAtCursorPosEffect(e.ch).lines)
    /\ Commit(e, InsertCharAtCursorPosEffect(e.ch), Waiting(e))
    /\ UNCHANGED disk

DeleteCharAtCursorPosOn(e) ==
    /\ Reads(e)
    /\ Resolved(e) = Some(Act("DeleteCharAtCursorPos", ""))
    /\ Commit(e, DeleteCharAtCursorPosEffect, Waiting(e))
    /\ UNCHANGED disk

SetWaitingCadOn(e) ==
    /\ Reads(e)
    /\ Resolved(e) = Some(Act("SetWaitingCad", "d"))
    /\ Commit(e, Same, SetWaitingCadEffect("d"))
    /\ UNCHANGED disk

DeleteCurrentLineOn(e) ==
    /\ Reads(e)
    /\ Resolved(e) = Some(Act("DeleteCurrentLine", ""))
    /\ Commit(e, DeleteCurrentLineEffect, Waiting(e))
    /\ UNCHANGED disk

\* one iteration of the loop body on the event e
Step(e) ==
    \/ HandleResizeOn(e)
    \/ NoActionOn(e)
    \/ QuitOn(e)
    \/ SaveOn(e)
    \/ MoveUpOn(e)
    \/ MoveDownOn(e)
    \/ MoveLeftOn(e)
    \/ MoveRightOn(e)
    \/ MoveToLineEndOn(e)
    \/ MoveToLineStartOn(e)
    \/ PageUpOn(e)
    \/ PageDownOn(e)
    \/ NewLineOn(e)
    \/ EnterModeOn(e)
    \/ InsertCharAtCursorPosOn(e)
    \/ DeleteCharAtCursorPosOn(e)
    \/ SetWaitingCadOn(e)
    \/ DeleteCurrentLineOn(e)

HandleResize == Ready /\ \E e \in Events : HandleResizeOn(e)

NoAction == Ready /\ \E e \in Events : NoActionOn(e)

Quit == Ready /\ \E e \in Events : QuitOn(e)

Save == Ready /\ \E e \in Events : SaveOn(e)

MoveUp == Ready /\ \E e \in Events : MoveUpOn(e)

MoveDown == Ready /\ \E e \in Events : MoveDownOn(e)

MoveLeft == Ready /\ \E e \in Events : MoveLeftOn(e)

MoveRight == Ready /\ \E e \in Events : MoveRightOn(e)

MoveToLineEnd == Ready /\ \E e \in Events : MoveToLineEndOn(e)

MoveToLineStart == Ready /\ \E e \in Events : MoveToLineStartOn(e)

PageUp == Ready /\ \E e \in Events : PageUpOn(e)

PageDown == Ready /\ \E e \in Events : PageDownOn(e)

NewLine == Ready /\ \E e \in Events : NewLineOn(e)

EnterMode == Ready /\ \E e \in Events : EnterModeOn(e)

InsertCharAtCursorPos == Ready /\ \E e \in Events : InsertCharAtCursorPosOn(e)

DeleteCharAtCursorPos == Ready /\ \E e \in Events : DeleteCharAtCursorPosOn(e)

SetWaitingCad == Ready /\ \E e \in Events : SetWaitingCadOn(e)

DeleteCurrentLine == Ready /\ \E e \in Events : DeleteCurrentLineOn(e)

Next ==
    \/ NewEditor
    \/ NewEditorFails
    \/ Clamp
    \/ IoError
    \/ HandleResize
    \/ NoAction
    \/ Quit
    \/ Save
    \/ MoveUp
    \/ MoveDown
    \/ MoveLeft
    \/ MoveRight
    \/ MoveToLineEnd
    \/ MoveToLineStart
    \/ PageUp
    \/ PageDown
    \/ NewLine
    \/ EnterMode
    \/ InsertCharAtCursorPos
    \/ DeleteCharAtCursorPos
    \/ SetWaitingCad
    \/ DeleteCurrentLine

Spec == Init /\ [][Next]_vars

-----------------------------------------------------------------------------
(* The Buffer operations on their own: each is applied once to a buffer    *)
(* drawn from the small buffers, with every argument in range and out of   *)
(* range; op records the call and the lines before it.                      *)

SeqUpTo(S, n) == UNION {[1..k -> S] : k \in 0..n}

\* the characters of the buffers the operations are applied to
BufChars == {"a", "E"}

InputLines == SeqUpTo(BufChars, MaxBufLineLen)
InputBuffers == SeqUpTo(InputLines, MaxBufLines)

\* a file content that Buffer::from_file loads as ls
ContentOf(ls) == IF ls = <<>> THEN <<>> ELSE Join(ls) \o <<NL>>

Call(name, x, y, c) == [name |-> name, x |-> x, y |-> y, c |-> c, pre |-> lines]

BufInit ==
    /\ file = Some("f")
    /\ lines \in InputBuffers
    /\ disk = ContentOf(lines)
    /\ overflow_checks = FALSE
    /\ pc = "buffer"
    /\ op = NoOp
    /\ InitEditor

BufInsert ==
    /\ pc = "buffer"
    /\ \E x \in 0..(MaxBufLineLen + 2), y \in 0..(MaxBufLines + 1), c \in TypedChars \cup WideChars :
         /\ lines' = Insert(lines, x, y, c)
         /\ op' = Call("insert", x, y, c)
    /\ pc' = "buffer_done"
    /\ UNCHANGED <<file, disk, editorVars, taken, action, termVars, fault, overflow_checks>>

BufRemove ==
    /\ pc = "buffer"
    /\ \E x \in 0..(2 * MaxBufLineLen + 1), y \in 0..(MaxBufLines + 1) :
         /\ op' = Call("remove", x, y, "")
         /\ IF RemovePanics(lines, x, y)
            THEN pc' = "panicked" /\ fault' = "char_boundary" /\ lines' = lines
            ELSE pc' = "buffer_done" /\ fault' = fault /\ lines' = Remove(lines, x, y)
    /\ UNCHANGED <<file, disk, editorVars, taken, action, termVars, overflow_checks>>

BufRemoveLine ==
    /\ pc = "buffer"
    /\ \E y \in 0..(MaxBufLines + 1) :
         /\ lines' = RemoveLine(lines, y)
         /\ op' = Call("remove_line", 0, y, "")
    /\ pc' = "buffer_done"
    /\ UNCHANGED <<file, disk, editorVars, taken, action, termVars, fault, overflow_checks>>

\* Buffer::save: the write succeeds, or its unwrap panics
BufSave ==
    /\ pc = "buffer"
    /\ file # None
    /\ op' = Call("save", 0, 0, "")
    /\ \/ disk' = SaveContent(lines) /\ pc' = "buffer_saved" /\ fault' = fault
       \/ disk' = disk /\ pc' = "panicked" /\ fault' = "save"
    /\ UNCHANGED <<lines, file, editorVars, taken, action, termVars, overflow_checks>>

\* Buffer::from_file on the path just saved, no edit in between
BufFromFile ==
    /\ pc = "buffer_saved"
    /\ lines' = FromFile(disk)
    /\ op' = Call("from_file", 0, 0, "")
    /\ pc' = "buffer_done"
    /\ UNCHANGED <<file, disk, editorVars, taken, action, termVars, fault, overflow_checks>>

BufNext ==
    \/ BufInsert
    \/ BufRemove
    \/ BufRemoveLine
    \/ BufSave
    \/ BufFromFile

BufSpec == BufInit /\ [][BufNext]_vars

-----------------------------------------------------------------------------
(* Properties of the cursor after check_bounds (pc = "read": check_bounds  *)
(* and draw have run and the loop waits for the next event)                *)

Max(a, b) == IF a > b THEN a ELSE b

\* C1: immediately after check_bounds has run, vtop + cy is at most
\* max(lineCount() - 1, 0): the cursor never rests past the last valid line.
C1_CursorWithinBuffer ==
    pc = "read" => vtop + cy <= Max(Len(lines) - 1, 0)

-----------------------------------------------------------------------------
(* Properties of the Buffer operations (BufSpec) *)

\* the line Buffer::get returns after the recorded insert holds the inserted
\* character at the recorded column
InsertedCharFound ==
    LET l == Get(lines, op.y)
    IN  /\ l # None
        /\ Len(l[1]) > op.x
        /\ l[1][op.x + 1] = op.c

\* C3: for every buffer, column, line index (at or beyond lineCount() too)
\* and character ch, after insert(column, line, ch) the lookup get(line)
\* returns a line whose character at position column is ch.
C3_InsertThenGet_Original ==
    (pc = "buffer_done" /\ op.name = "insert") => InsertedCharFound

\* C3, as the code has it: the same for every line index up to lineCount();
\* beyond it the new line is appended at index lineCount(), not at the index
\* given.
C3_InsertThenGet ==
    (pc = "buffer_done" /\ op.name = "insert" /\ op.y <= Len(op.pre))
        => InsertedCharFound

\* C3 happens: an insert at line index lineCount(), at a column that needs
\* padding, on a buffer that has lines
C3_Witness ==
    /\ pc = "buffer_done"
    /\ op.name = "insert"
    /\ op.pre # <<>>
    /\ op.y = Len(op.pre)
    /\ op.x = 2
    /\ lines[Len(lines)] = <<SPACE, SPACE, op.c>>

\* C4: save() followed by loading the same path with no edit in between
\* yields a line sequence identical to the one saved, for every buffer:
\* zero lines, exactly one empty line, a last line that is empty.
C4_SaveLoadRoundTrip ==
    (pc = "buffer_done" /\ op.name = "from_file") => lines = op.pre

-----------------------------------------------------------------------------
(* Properties of the loop *)

\* C5: no sequence of input events drives the editor into a fault: no u16
\* computation of check_bounds, vheight, MoveDown, PageDown, the edit
\* Actions or the draw overflows, and no buffer operation panics.
C5_NoFault == fault \notin {"overflow", "char_boundary"}

\* the step is the loop handling the event e (Step(e) implies the first two
\* conjuncts; they are there to be evaluated first)
Handled(e) ==
    /\ action' = Resolved(e)
    /\ taken' = Taken(e)
    /\ Step(e)

\* C6: whenever waiting_command is set, the very next input event of any
\* kind (the completing 'd', Esc, any other key, a resize) leaves it cleared.
C6_PendingCleared_Original ==
    [][(pc = "read" /\ waiting_command # None) =>
         \A e \in Events : Handled(e) => waiting_command' = None]_vars

\* C6, as the code has it: the next event that is not a resize leaves
\* waiting_command cleared; a resize leaves it as it was.
C6_PendingCleared ==
    [][(pc = "read" /\ waiting_command # None) =>
         \A e \in Events :
             Handled(e) =>
                 waiting_command' = (IF e.kind = "Resize" THEN waiting_command
                                     ELSE None)]_vars

\* C6 happens: an event found 'd' pending, and none is pending after it
C6_Witness ==
    /\ pc = "clamp"
    /\ taken = Some("d")
    /\ waiting_command = None

\* the line sequence ls with its element at index k (from 0) deleted
WithoutLine(ls, k) ==
    [i \in 1..(Len(ls) - 1) |-> IF i <= k THEN ls[i] ELSE ls[i + 1]]

\* C7: in Normal mode, 'd' then 'd' with the cursor on buffer line
\* k = vtop + cy < lineCount() removes exactly line k: the other lines are
\* unchanged and in order, and lineCount() decreases by one.
C7_DeleteCurrentLine ==
    [][(pc = "read" /\ vtop + cy < Len(lines)) =>
         \A e \in Events :
             DeleteCurrentLineOn(e) =>
                 /\ Len(lines') = Len(lines) - 1
                 /\ lines' = WithoutLine(lines, vtop + cy)]_vars

\* C7 happens: 'd', 'd' with the cursor on line 1 of the three lines of the
\* file
C7_Witness ==
    /\ pc = "clamp"
    /\ taken = Some("d")
    /\ action = Some(Act("DeleteCurrentLine", ""))
    /\ lines = << <<"a">>, <<"E">> >>

\* the step leaves the buffer, the cursor and the scroll offset as they are
CursorAndLinesKept ==
    /\ lines' = lines
    /\ cx' = cx
    /\ cy' = cy
    /\ vtop' = vtop

\* C8: in Normal mode with nothing pending, 'd' then Esc leaves the buffer,
\* cx, cy and vtop unchanged, the mode Normal and waiting_command cleared;
\* so does 'd' followed by any key other than 'd'.  The three conjuncts are
\* the first key, the check_bounds between the keys, and the second key.
C8_AbortedCommand ==
    /\ [][pc = "read" =>
            \A e \in Events :
                SetWaitingCadOn(e) =>
                    CursorAndLinesKept /\ mode = "Normal" /\ mode' = "Normal"]_vars
    /\ [][(pc = "clamp" /\ action = Some(Act("SetWaitingCad", "d")) /\ Clamp) =>
            CursorAndLinesKept /\ pc' = "read" /\ mode' = "Normal"
                /\ waiting_command' = Some("d")]_vars
    /\ [][(pc = "read" /\ waiting_command = Some("d")) =>
            \A e \in Events :
                (e.kind = "Key" /\ ~(e.code = "Char" /\ e.ch = "d") /\ Handled(e)) =>
                    /\ CursorAndLinesKept
                    /\ pc' = "clamp"
                    /\ mode' = "Normal"
                    /\ waiting_command' = None]_vars

\* C8 happens: Esc found 'd' pending, away from the origin
C8_Witness ==
    /\ pc = "clamp"
    /\ taken = Some("d")
    /\ action = Some(Act("EnterMode", "Normal"))
    /\ mode = "Normal"
    /\ waiting_command = None
    /\ cx > 0
    /\ vtop > 0

\* C9: in Insert mode with cx = 0 and vtop + cy > 0 (cy = 0 with vtop > 0
\* too), Backspace moves the cursor to the end of the previous buffer line
\* (vtop + cy decreases by exactly one) and removes that line's last
\* character if it has one; the line the cursor started on is unchanged.
C9_BackspaceAtLineStart ==
    [][(pc = "read" /\ mode = "Insert" /\ cx = 0 /\ vtop + cy > 0) =>
         \A e \in Events :
             DeleteCharAtCursorPosOn(e) =>
                 LET k == vtop + cy
                 IN  /\ pc' = "clamp"
                     /\ vtop' + cy' = k - 1
                     /\ Len(lines') = Len(lines)
                     /\ k < Len(lines) => lines'[k + 1] = lines[k + 1]
                     /\ k - 1 < Len(lines) =>
                            lines'[k] = (IF lines[k] = <<>> THEN <<>>
                                         ELSE SubSeq(lines[k], 1, Len(lines[k]) - 1))]_vars

\* C10: on every path on which the terminal was put into raw mode (quit, an
\* error returned from the loop, a panic in the loop, a failure inside
\* Editor::new after enable_raw_mode) the restoration runs, exactly once;
\* the process never ends with the terminal in raw mode.
C10_TerminalRestored ==
    pc \in {"exited", "panicked"} =>
        /\ ~raw
        /\ ~alt
        /\ restored <= 1
        /\ fault # "enable_raw_mode" => restored = 1

\* C11: when the file write of the Save action fails, the failure comes back
\* to the caller as an error value, not a fault; the buffer lines are
\* unchanged and the editor is in a state from which Save can be retried.
C11_SaveFailureReported == ~(pc = "panicked" /\ fault = "save")

\* the step applies the Action named name
Applies(name) ==
    /\ pc = "read"
    /\ action' # None
    /\ action'[1].name = name

\* the line l with the character c spliced in at the character offset x
Spliced(l, x, c) == SubSeq(l, 1, x) \o <<c>> \o SubSeq(l, x + 1, Len(l))

\* C12: in Insert mode, typing a printable character c with the clamped
\* cursor at column cx on buffer line L = vtop + cy inserts c at character
\* offset cx of line L (the characters before cx keep their positions, those
\* from cx on shift right by one, every other line is unchanged) and then
\* advances cx by exactly one; cy and vtop are unchanged.  A line L that is
\* absent (L = lineCount()) counts as an empty line that the insert creates.
C12_InsertAtCursor ==
    [][Applies("InsertCharAtCursorPos") =>
         LET L == vtop + cy
             c == action'[1].arg
             l == IF L < Len(lines) THEN lines[L + 1] ELSE <<>>
         IN  /\ pc' = "clamp"
             /\ cx <= Len(l)
             /\ lines' = (IF L < Len(lines)
                          THEN [lines EXCEPT ![L + 1] = Spliced(l, cx, c)]
                          ELSE Append(lines, Spliced(l, cx, c)))
             /\ cx' = cx + 1
             /\ cy' = cy
             /\ vtop' = vtop]_vars

\* C13: vtop changes only as the effect of MoveUp, MoveDown, PageUp or
\* PageDown: check_bounds never changes it, and no editing Action (insert,
\* Backspace, Enter, delete-current-line), mode switch, Save or resize does.
C13_VtopOnlyScrolls ==
    [][(pc \in {"clamp", "read"} /\ pc' \in {"clamp", "read"} /\ vtop' # vtop) =>
         /\ action' # None
         /\ action'[1].name \in {"MoveUp", "MoveDown", "PageUp", "PageDown"}]_vars

\* C14: after check_bounds the cursor row lies inside the content area,
\* cy < contentHeight() = screen height - 2, for any sequence of MoveDown,
\* Enter and resize events on a buffer longer than the viewport.  (Stated for
\* a content area of at least one row.)
C14_CursorInContentArea ==
    (pc = "read" /\ size[2] > 2 /\ Len(lines) > size[2] - 2) => cy < size[2] - 2

\* the resize events
ResizeEvents == {Resize(sz[1], sz[2]) : sz \in Sizes}

\* C15: a resize event, in either mode and with or without a pending
\* command, produces no Action and changes only the stored screen size:
\* buffer, mode, cx, cy, vtop, vleft and waiting_command are unchanged by
\* handling the event.
C15_ResizeOnlySize ==
    [][pc = "read" =>
         \A e \in ResizeEvents :
             Handled(e) =>
                 /\ pc' = "clamp"
                 /\ action' = None
                 /\ size' = e.size
                 /\ lines' = lines
                 /\ mode' = mode
                 /\ cx' = cx
                 /\ cy' = cy
                 /\ vtop' = vtop
                 /\ vleft' = vleft
                 /\ waiting_command' = waiting_command]_vars

\* C15 happens: a resize was handled with 'd' pending (nothing else leaves a
\* pending command behind without an Action), in a state away from the origin
C15_Witness ==
    /\ pc = "clamp"
    /\ action = None
    /\ waiting_command = Some("d")
    /\ size = <<20, 2>>
    /\ vtop > 0

\* C16: remove(column, line) removes exactly the character at offset column
\* of the line (the other characters keep their order, the other lines and
\* the line count are unchanged) when the line exists, is non-empty and
\* column < its length; in every other case the buffer is unchanged; no error
\* is raised.
C16_RemoveChar ==
    op.name = "remove" =>
        /\ pc = "buffer_done"
        /\ lines = (IF /\ op.y < Len(op.pre)
                       /\ op.pre[op.y + 1] # <<>>
                       /\ op.x < Len(op.pre[op.y + 1])
                    THEN [op.pre EXCEPT ![op.y + 1] =
                            SubSeq(@, 1, op.x) \o SubSeq(@, op.x + 2, Len(@))]
                    ELSE op.pre)

\* the line l padded with spaces up to the column x, then c
Padded(l, x, c) ==
    [i \in 1..(x + 1) |-> IF i <= Len(l) THEN l[i] ELSE IF i <= x THEN SPACE ELSE c]

\* C17: insert(column, line, ch) with column greater than the line's length
\* keeps the line's characters as a prefix, fills the gap with exactly
\* column - length spaces and appends ch (a line of length column + 1); when
\* the line does not exist, exactly one new line of column spaces followed by
\* ch is appended and the existing lines are unchanged.
C17_InsertPads ==
    (pc = "buffer_done" /\ op.name = "insert") =>
        /\ (op.y < Len(op.pre) /\ op.x > Len(op.pre[op.y + 1])) =>
               /\ lines = [op.pre EXCEPT ![op.y + 1] = Padded(@, op.x, op.c)]
               /\ Len(lines[op.y + 1]) = op.x + 1
        /\ op.y >= Len(op.pre) =>
               lines = Append(op.pre, Padded(<<>>, op.x, op.c))

\* C17 happens: [] with 'x' at (3, 0) gives ["   x"]
C17_Witness ==
    /\ pc = "buffer_done"
    /\ op.name = "insert"
    /\ op.pre = <<>>
    /\ op.x = 3
    /\ op.y = 0
    /\ lines = << <<SPACE, SPACE, SPACE, "x">> >>

\* C18: with contentHeight() the value vheight() returns, PageDown advances
\* vtop by contentHeight() only when lineCount() > vtop + contentHeight() and
\* otherwise leaves it, so paging keeps vtop < lineCount(); PageUp sets vtop
\* to max(vtop - contentHeight(), 0); neither changes cx, cy or the buffer.
C18_Paging ==
    [][/\ Applies("PageDown") =>
            /\ pc' = "clamp"
            /\ vtop' = (IF Len(lines) > vtop + Vheight
                        THEN vtop + Vheight ELSE vtop)
            /\ vtop < Len(lines) => vtop' < Len(lines)
            /\ cx' = cx /\ cy' = cy /\ lines' = lines
       /\ Applies("PageUp") =>
            /\ pc' = "clamp"
            /\ vtop' = Max(vtop - Vheight, 0)
            /\ cx' = cx /\ cy' = cy /\ lines' = lines]_vars

\* C19: every iteration of the loop is clamp, render, read one event, resolve,
\* apply: the state an event is read in was entered from the clamp step only,
\* with the cursor check_bounds computes and nothing else changed; one read
\* resolves one event to at most one Action and leads back to the clamp step
\* (or ends the process), never to a second read.
C19_LoopOrder ==
    [][/\ pc = "clamp" =>
            /\ pc' \in {"read", "panicked", "exited"}
            /\ pc' = "read" =>
                  /\ cx' = CheckBounds.cx
                  /\ cy' = CheckBounds.cy
                  /\ action' = None
                  /\ lines' = lines /\ vtop' = vtop /\ mode' = mode
                  /\ size' = size /\ waiting_command' = waiting_command
       /\ pc = "read" =>
            /\ pc' \in {"clamp", "panicked", "exited"}
            /\ Len(action') <= 1
            /\ pc' = "clamp" => \E e \in Events : Handled(e)
       /\ pc' = "read" => pc = "clamp"
       /\ pc' = "clamp" => pc \in {"start", "read"}]_vars

\* an event is read in Insert mode after a character was inserted: the second
\* iteration at least, past its clamp step
C19_Witness ==
    /\ pc = "read"
    /\ action = None
    /\ mode = "Insert"
    /\ TypedCount(lines) = 1
    /\ cx = 1

\* C20: whenever a pending command is set the mode is Normal; a pending
\* command never coexists with Insert mode.
C20_PendingOnlyInNormal == waiting_command # None => mode = "Normal"

\* 'd' was pressed in Normal mode and the next event is awaited
C20_Witness ==
    /\ pc = "read"
    /\ waiting_command = Some("d")
    /\ mode = "Normal"
    /\ lines # <<>>

\* C21: the buffer's lines change only in Insert mode through a character
\* or Backspace, and in Normal mode through the 'd' that completes 'd','d';
\* every other event, and the clamp step, leaves them as they are; Enter in
\* Insert mode only sets cy += 1 and cx = 0.
C21_LinesChangeOnlyByEdits ==
    [][/\ (pc = "read" /\ pc' = "clamp" /\ lines' # lines) =>
            /\ action' # None
            /\ \/ /\ mode = "Insert"
                  /\ action'[1].name \in {"InsertCharAtCursorPos",
                                           "DeleteCharAtCursorPos"}
               \/ /\ mode = "Normal"
                  /\ taken' = Some("d")
                  /\ action'[1].name = "DeleteCurrentLine"
       /\ (pc = "clamp" /\ pc' = "read") => lines' = lines
       /\ (Applies("NewLine") /\ pc' = "clamp") =>
            /\ mode = "Insert"
            /\ lines' = lines
            /\ cy' = cy + 1
            /\ cx' = 0
            /\ vtop' = vtop /\ mode' = mode]_vars

\* Enter was pressed in Insert mode on a three-line buffer that holds a typed
\* character: the cursor is one row down in column 0, the lines are all there
C21_Witness ==
    /\ pc = "clamp"
    /\ action = Some(Act("NewLine", ""))
    /\ mode = "Insert"
    /\ TypedCount(lines) = 1
    /\ Len(lines) = 3
    /\ cx = 0
    /\ cy = 1

\* C22: through the loop the padding of Buffer::insert is never reached: an
\* insert is issued with cx <= the length of the target line and with buffer
\* line vtop + cy <= lineCount(), so it adds no space: it splices into an
\* existing line, or appends one new one-character line at lineCount().
C22_NoPaddingThroughLoop ==
    [][(Applies("InsertCharAtCursorPos") /\ pc' = "clamp") =>
         LET L == vtop + cy
             l == IF L < Len(lines) THEN lines[L + 1] ELSE <<>>
         IN  /\ L <= Len(lines)
             /\ cx <= Len(l)
             /\ PaddingCount(lines') = PaddingCount(lines)
             /\ IF L < Len(lines)
                THEN /\ Len(lines') = Len(lines)
                     /\ Len(lines'[L + 1]) = Len(l) + 1
                ELSE /\ Len(lines') = Len(lines) + 1
                     /\ Len(lines'[L + 1]) = 1]_vars

\* the two keys of the exit sequence
EscKey == Key("Esc", "", FALSE)
QKey == Char("q")

\* where an event is awaited: Esc resolves to a state (Normal, nothing
\* pending) in which 'q' resolves to Quit, and the clamp of the iteration in
\* between, which finds the cursor, the buffer and the size as they are,
\* does not fault
EscThenQQuits ==
    LET a == HandleEvent(EscKey, mode, waiting_command)
        m == IF a = None THEN mode ELSE EnterModeEffect(a[1].arg).mode
        w == WaitingAfterEvent(EscKey, mode, waiting_command)
        r == CheckBounds
    IN  /\ a \in {None, Some(Act("EnterMode", "Normal"))}
        /\ m = "Normal"
        /\ w = None
        /\ HandleEvent(QKey, m, w) = Some(Act("Quit", ""))
        /\ ~(overflow_checks /\ (r.ovf \/ DrawOvf(r.cx, r.cy)))

\* C23: the user can always end the loop: from every state in which an event
\* is awaited (Insert mode, Normal mode, Normal mode with a pending command)
\* Esc leads to Normal mode with nothing pending and 'q' there ends run; Quit
\* is resolved only in Normal mode with nothing pending ('q' in Insert mode
\* is inserted, 'q' after 'd' is swallowed).
C23_EscThenQEndsLoop ==
    /\ [](pc = "read" => EscThenQQuits)
    /\ [](\A w \in {None, Some("d")} :
            HandleEvent(QKey, "Insert", w) =
                Some(Act("InsertCharAtCursorPos", "q")))
    /\ [](HandleEvent(QKey, "Normal", Some("d")) = None)
    /\ [][pc = "read" =>
            /\ Handled(EscKey) =>
                  /\ pc' = "clamp"
                  /\ mode' = "Normal"
                  /\ waiting_command' = None
                  /\ lines' = lines /\ cx' = cx /\ cy' = cy
                  /\ vtop' = vtop /\ size' = size
            /\ (mode = "Normal" /\ waiting_command = None /\ Handled(QKey)) =>
                  pc' = "exited"
            /\ (action' = Some(Act("Quit", ""))) =>
                  /\ mode = "Normal"
                  /\ waiting_command = None
                  /\ pc' = "exited"]_vars

\* Esc was pressed in Insert mode after a character was typed: the editor is
\* in Normal mode with nothing pending, where 'q' quits
C23_Witness ==
    /\ pc = "clamp"
    /\ action = Some(Act("EnterMode", "Normal"))
    /\ taken = None
    /\ mode = "Normal"
    /\ waiting_command = None
    /\ TypedCount(lines) = 1

====
